---------------------------- MODULE Spec2Model ----------------------------
(***************************************************************************)
(* Model of Helpers/snitchprot (src/Helpers/snitchprot/src/main.rs): the  *)
(* VPN-to-firewall reconciler.  Every run of main() is one cycle: probe    *)
(* the VPN, read the two preference keys, decide, call the Little Snitch   *)
(* command, write the two keys back.  A second part models                *)
(* clean_log_file of Helpers/cleanlog (src/Helpers/cleanlog/src/main.rs),  *)
(* which trims the log files by age, and a third part main of              *)
(* Helpers/cronup (src/Helpers/cronup/src/main.rs), which runs the update  *)
(* commands.                                                               *)
(*                                                                         *)
(* Strings are sequences of one-character strings, so that formatting,     *)
(* parsing, case folding and substring search are computed, not assumed.   *)
(***************************************************************************)
EXTENDS Integers, Sequences, FiniteSets

(***************************************************************************)
(* Program constants and model bounds                                      *)
(***************************************************************************)

\* main.rs:143  `... - last_refresh_time >= 60`
REFRESH_SECS == 60

\* main.rs:89  seconds between the unix epoch and the Core Foundation
\* reference date (2001-01-01)
CF_EPOCH_OFFSET == 978307200

\* The clock is observed at the instants k*REFRESH_SECS and
\* k*REFRESH_SECS + (REFRESH_SECS - 1), k = 0..MaxMinutes, counted from the
\* Core Foundation reference date: every elapsed time 1, 59, 60, 119, ...
\* occurs between two of them.
MaxMinutes == 1

Times ==
    { CF_EPOCH_OFFSET + k * REFRESH_SECS + j :
        k \in 0..MaxMinutes, j \in {0, REFRESH_SECS - 1} }

MaxTime == CF_EPOCH_OFFSET + MaxMinutes * REFRESH_SECS + (REFRESH_SECS - 1)

\* The reconciler processes.  Spec schedules one of them (the surrounding
\* scheduler runs at most one instance at a time).
Procs == {"r1", "r2"}
Sched == {"r1"}

(***************************************************************************)
(* Characters and strings                                                  *)
(***************************************************************************)

Digits == <<"0", "1", "2", "3", "4", "5", "6", "7", "8", "9">>
Upper  == <<"A", "B", "C", "D", "E", "F", "G", "H", "I", "J", "K", "L", "M",
            "N", "O", "P", "Q", "R", "S", "T", "U", "V", "W", "X", "Y", "Z">>
Lower  == <<"a", "b", "c", "d", "e", "f", "g", "h", "i", "j", "k", "l", "m",
            "n", "o", "p", "q", "r", "s", "t", "u", "v", "w", "x", "y", "z">>

IsDigit(c) == \E d \in 1..10 : Digits[d] = c
DigitVal(c) == (CHOOSE d \in 1..10 : Digits[d] = c) - 1

\* u64::to_string (main.rs:89, main.rs:210): decimal digits, no sign, no
\* leading zeros.
RECURSIVE U64ToString(_)
U64ToString(n) ==
    IF n < 10 THEN << Digits[n + 1] >>
    ELSE U64ToString(n \div 10) \o << Digits[(n % 10) + 1] >>

\* The decimal digits of u64::MAX = 18446744073709551615.
U64_MAX_STR ==
    <<"1", "8", "4", "4", "6", "7", "4", "4", "0", "7", "3", "7", "0", "9",
      "5", "5", "1", "6", "1", "5">>

\* The digits without their leading zeros (the last digit always stays).
StripZeros(s) ==
    LET first == IF \E i \in 1..Len(s) : s[i] # "0"
                 THEN CHOOSE i \in 1..Len(s) :
                          /\ s[i] # "0"
                          /\ \A j \in 1..(i - 1) : s[j] = "0"
                 ELSE Len(s)
    IN  SubSeq(s, first, Len(s))

\* a <= b for two digit strings of the same length: at the first place
\* where they differ, the digit of a is the smaller one.
DigitsLeq(a, b) ==
    \A i \in 1..Len(a) :
        (\A j \in 1..(i - 1) : a[j] = b[j]) => DigitVal(a[i]) <= DigitVal(b[i])

FitsU64(ds) ==
    LET z == StripZeros(ds) IN
    \/ Len(z) < Len(U64_MAX_STR)
    \/ Len(z) = Len(U64_MAX_STR) /\ DigitsLeq(z, U64_MAX_STR)

\* The number a digit string denotes, accumulated digit by digit from the
\* left.
DigitsValue(ds) ==
    LET acc[n \in 0..Len(ds)] ==
            IF n = 0 THEN 0 ELSE acc[n - 1] * 10 + DigitVal(ds[n])
    IN  acc[Len(ds)]

\* str::parse::<u64> (main.rs:142): an optional leading '+', then one or
\* more decimal digits whose value fits 64 bits; anything else is an error.
\* (The model only computes the value of strings of at most 10 digits.)
ParseU64(s) ==
    LET ds == IF s # << >> /\ s[1] = "+" THEN Tail(s) ELSE s
        ok == /\ ds # << >>
              /\ \A i \in 1..Len(ds) : IsDigit(ds[i])
              /\ FitsU64(ds)
    IN  [ok |-> ok, val |-> IF ok /\ Len(StripZeros(ds)) <= 10
                            THEN DigitsValue(ds) ELSE 0]

ToLowerChar(c) ==
    IF \E i \in 1..26 : Upper[i] = c
    THEN Lower[CHOOSE i \in 1..26 : Upper[i] = c]
    ELSE c

\* Mutant of ToLowercase: the case of the letters is kept.
ToLowercaseKeepsCase(s) == s

\* str::to_lowercase (main.rs:127)
ToLowercase(s) == [i \in 1..Len(s) |-> ToLowerChar(s[i])]

\* str::contains (main.rs:127)
Contains(s, pat) ==
    \E i \in 0..(Len(s) - Len(pat)) : SubSeq(s, i + 1, i + Len(pat)) = pat

(***************************************************************************)
(* The status probe (main.rs:119-134)                                      *)
(***************************************************************************)

\* A byte that is not valid UTF-8, and the character U+FFFD that
\* String::from_utf8_lossy puts in its place.
INVALID_BYTE == "xFF"
REPLACEMENT  == "uFFFD"

HasInvalidByte(bytes) == \E i \in 1..Len(bytes) : bytes[i] = INVALID_BYTE

\* Mutant of FromUtf8Lossy: the invalid bytes are dropped, not replaced.
FromUtf8Dropping(bytes) ==
    LET Valid(b) == b # INVALID_BYTE IN SelectSeq(bytes, Valid)

\* String::from_utf8_lossy (main.rs:122): never fails.
FromUtf8Lossy(bytes) ==
    [i \in 1..Len(bytes) |->
        IF bytes[i] = INVALID_BYTE THEN REPLACEMENT ELSE bytes[i]]

StripCr(line) ==
    IF line # << >> /\ line[Len(line)] = "\r"
    THEN SubSeq(line, 1, Len(line) - 1) ELSE line

\* str::lines (main.rs:126): split at '\n', an optional '\r' before it
\* dropped, no empty last line.
RECURSIVE Lines(_)
Lines(s) ==
    IF s = << >> THEN << >>
    ELSE IF \E i \in 1..Len(s) : s[i] = "\n"
    THEN LET i == CHOOSE k \in 1..Len(s) :
                      s[k] = "\n" /\ \A j \in 1..(k - 1) : s[j] # "\n"
         IN  << StripCr(SubSeq(s, 1, i - 1)) >> \o Lines(SubSeq(s, i + 1, Len(s)))
    ELSE << StripCr(s) >>

PROTON    == <<"p", "r", "o", "t", "o", "n">>
CONNECTED_MARKER == <<"C", "o", "n", "n", "e", "c", "t", "e", "d">>

\* main.rs:125-127
LineMatches(line) ==
    Contains(ToLowercase(line), PROTON) /\ Contains(line, CONNECTED_MARKER)

VpnConnected(output_str) ==
    \E i \in 1..Len(Lines(output_str)) : LineMatches(Lines(output_str)[i])

connected    == <<"c", "o", "n", "n", "e", "c", "t", "e", "d">>
disconnected == <<"d", "i", "s">> \o connected

\* main.rs:130-134
CurrentState(stdout) ==
    IF VpnConnected(FromUtf8Lossy(stdout)) THEN connected ELSE disconnected

\* What `scutil --nc list` may print (bytes).
OutUp        == <<"(">> \o CONNECTED_MARKER \o <<")", " ", "P", "r", "o", "t", "o", "n">>
OutDown      == <<"(", "D", "i", "s">> \o connected \o <<")", " ", "P", "r", "o", "t", "o", "n">>
OutUpperCrLf == <<"P", "R", "O", "T", "O", "N", " ">> \o CONNECTED_MARKER \o <<"\r", "\n">>
OutLowerMark == <<"(">> \o connected \o <<")", " ">> \o PROTON
OutTwoLines  == <<"(">> \o CONNECTED_MARKER \o <<")", " ", "W", "G", "\n">> \o OutDown \o <<"\n">>
OutBadByteOk == <<INVALID_BYTE>> \o OutUp
OutBadByteIn == <<"(", "C", "o", "n", INVALID_BYTE, "n", "e", "c", "t", "e", "d", ")", " ">> \o PROTON

ProbeOutputs ==
    { << >>, OutUp, OutDown, OutUpperCrLf, OutLowerMark, OutTwoLines,
      OutBadByteOk, OutBadByteIn }

(***************************************************************************)
(* The preferences domain gg.hw.snitchprot (main.rs:65-114)                *)
(***************************************************************************)

\* A stored value carries its Core Foundation type.
Null       == [t |-> "null"]
CFStr(s)   == [t |-> "string", s |-> s]
CFDateAt(a) == [t |-> "date", abs |-> a]
CFOther    == [t |-> "other"]

None    == [some |-> FALSE]
Some(s) == [some |-> TRUE, val |-> s]

\* `f64 as u64` (main.rs:89): saturating at 0.
AsU64(x) == IF x < 0 THEN 0 ELSE x

\* get_preference (main.rs:65-97) of a stored value.
GetPreference(v) ==
    IF v.t = "string" THEN Some(v.s)
    ELSE IF v.t = "date" THEN Some(U64ToString(AsU64(v.abs + CF_EPOCH_OFFSET)))
    ELSE None

\* set_preference (main.rs:100-114): the value is always stored as a string.
SetPreference(st, key, value) == [st EXCEPT ![key] = CFStr(value)]

(***************************************************************************)
(* The decision of main (main.rs:137-150)                                  *)
(***************************************************************************)

\* `a - b >= k` on u64 (main.rs:143).  With a < b the subtraction overflows:
\* a build with overflow checks panics, a build without them wraps to
\* 2^64 - (b - a), which is at least k for every b - a the model reaches.
U64SubAtLeast(a, b, k, checks) ==
    IF a >= b THEN [kind |-> "value", v |-> (a - b >= k)]
    ELSE IF checks THEN [kind |-> "panic"]
    ELSE [kind |-> "value", v |-> TRUE]

\* Mutant of ForceRefresh: a stored time never forces a refresh.
ForceRefreshOnlyWhenAbsent(pref, now, checks) ==
    IF ~pref.some THEN [kind |-> "value", v |-> TRUE]
    ELSE IF ~ParseU64(pref.val).ok THEN [kind |-> "err_parse"]
    ELSE [kind |-> "value", v |-> FALSE]

\* SystemTime::now().duration_since(UNIX_EPOCH) (main.rs:143, 207-208) is
\* an Err when the system clock stands before 1970.
BeforeEpoch(now) == now < 0

\* main.rs:140-146: the value of force_refresh, or how its evaluation ends.
\* `now` is read only after the stored string has parsed.
ForceRefresh(pref, now, checks) ==
    IF ~pref.some THEN [kind |-> "value", v |-> TRUE]
    ELSE IF ~ParseU64(pref.val).ok THEN [kind |-> "err_parse"]
    ELSE IF BeforeEpoch(now) THEN [kind |-> "err_time"]
    ELSE U64SubAtLeast(now, ParseU64(pref.val).val, REFRESH_SECS, checks)

\* Mutant of MustAct: every cycle applies the profile.
MustActAlways(cur, prev, force) == TRUE

\* Mutant of MustAct: the staleness refresh is forgotten.
MustActOnlyOnChange(cur, prev, force) == cur # prev

\* main.rs:149
MustAct(cur, prev, force) == cur # prev \/ force

\* Mutant of IsTransition: every acting cycle takes the logging branch.
IsTransitionAlways(cur, prev) == TRUE

\* main.rs:150
IsTransition(cur, prev) == cur # prev

\* Mutant of ActuatorArgs: the profile is disabled whatever was probed.
ActuatorArgsAlwaysDisable(cur) == <<"profile", "-d">>

\* main.rs:160-166, 171-178, 184-199: the littlesnitch arguments
ActuatorArgs(cur) ==
    IF cur = connected THEN <<"profile", "-d">>
    ELSE <<"profile", "-a", "VPN Off">>

\* main.rs:152-155
MsgChanged(prev, cur) ==
    [op |-> "log", msg |-> "VPN state changed from '{}' to '{}'",
     args |-> <<prev, cur>>]

\* main.rs:159, 170
MsgBefore(cur) ==
    [op |-> "log",
     msg |-> IF cur = connected THEN "Disabling Little Snitch profile..."
             ELSE "Enabling 'VPN Off' profile...",
     args |-> << >>]

\* main.rs:167, 179
MsgAfter(cur) ==
    [op |-> "log",
     msg |-> IF cur = connected THEN "Little Snitch profile disabled"
             ELSE "Little Snitch profile 'VPN Off' enabled",
     args |-> << >>]

(***************************************************************************)
(* State                                                                   *)
(***************************************************************************)

VARIABLES
    clock,            \* the system clock, unix seconds
    store,            \* the preferences domain: key -> stored value
    overflow_checks,  \* whether the build panics on integer overflow
    pc,               \* per process: the statement of main it is at
    current_state,    \* main.rs:130
    previous_state,   \* main.rs:137
    force_refresh,    \* main.rs:140
    result,           \* how main ended: "ok", an error, or "running"/"none"
    probe_io,         \* what Command::output() gave at main.rs:121:
                      \* "ok", "error", or "none" before the call
    stdout,           \* the bytes the status command printed in this cycle
    now_obs,          \* the clock value read at main.rs:143 (0: not read)
    persist_at,       \* the clock value when main.rs:205-211 ran (0: not run)
    store0,           \* the store when the cycle started
    trace,            \* the cycle's effects in order: log lines, the
                      \* Actuator call, the preference writes
    crashed,          \* the cycle before this one was killed or stopped at
                      \* a log write, and the store has not been edited
                      \* since: where it was, what it had probed, the store
                      \* it had started from
    overlapped,       \* per process: another instance ran during its cycle
    log_file,         \* a log file under LOG_HOME: whether it exists, its lines
    clean_call,       \* the last call of clean_log_file: its arguments, the
                      \* time it read, the file it found
    clean_result,     \* how that call ended, and the number it returned
    cronup_pc,        \* cronup: the statement of main it is at
    online,           \* cronup main.rs:33: what check_network returned
                      \* ("none" before the call)
    commands_run,     \* the update commands this run has executed, in
                      \* order, each with its exit status
    cronup_log,       \* the lines this run has appended to its log files
    cronup_result     \* how cronup's main ended

vars == <<clock, store, overflow_checks, pc, current_state, previous_state,
          force_refresh, result, probe_io, stdout, now_obs, persist_at, store0,
          trace, crashed, overlapped, log_file, clean_call, clean_result,
          cronup_pc, online, commands_run, cronup_log, cronup_result>>

cleanlog_vars == <<log_file, clean_call, clean_result>>

cronup_vars ==
    <<cronup_pc, online, commands_run, cronup_log, cronup_result>>

locals == <<current_state, previous_state, force_refresh, probe_io, stdout,
            now_obs, persist_at, store0>>

EmptyStore == [previous_state |-> Null, last_refresh_time |-> Null]

\* The log file does not exist; clean_log_file has not been called.
NoFile == [exists |-> FALSE, lines |-> << >>]
NoCall == [retention_days |-> 0, current_time |-> 0, file |-> NoFile]

\* The cycle before this one was neither killed nor stopped at a log write.
NoCrash == [at |-> "none", state |-> << >>, store0 |-> EmptyStore]

\* The process is somewhere inside main.
Running(p) == pc[p] \notin {"idle", "done"}

Init ==
    /\ clock = CF_EPOCH_OFFSET
    /\ store = EmptyStore
    /\ overflow_checks \in BOOLEAN
    /\ pc = [p \in Procs |-> "idle"]
    /\ current_state = [p \in Procs |-> << >>]
    /\ previous_state = [p \in Procs |-> << >>]
    /\ force_refresh = [p \in Procs |-> FALSE]
    /\ result = [p \in Procs |-> "none"]
    /\ probe_io = [p \in Procs |-> "none"]
    /\ stdout = [p \in Procs |-> << >>]
    /\ now_obs = [p \in Procs |-> 0]
    /\ persist_at = [p \in Procs |-> 0]
    /\ store0 = [p \in Procs |-> EmptyStore]
    /\ trace = [p \in Procs |-> << >>]
    /\ crashed = NoCrash
    /\ overlapped = [p \in Procs |-> FALSE]
    /\ log_file = NoFile
    /\ clean_call = NoCall
    /\ clean_result = [kind |-> "none", n |-> 0]
    /\ cronup_pc = "idle"
    /\ online = "none"
    /\ commands_run = << >>
    /\ cronup_log = << >>
    /\ cronup_result = "none"

(***************************************************************************)
(* One cycle: main (main.rs:117-215), statement by statement               *)
(***************************************************************************)

Emit(p, e) == trace' = [trace EXCEPT ![p] = Append(@, e)]

\* main returns: Ok(()) or the error `?` propagated (or a panic).
Return(p, r) ==
    /\ pc' = [pc EXCEPT ![p] = "done"]
    /\ result' = [result EXCEPT ![p] = r]

Goto(p, label) ==
    /\ pc' = [pc EXCEPT ![p] = label]
    /\ UNCHANGED result

\* The scheduler starts the program.
StartCycle(p) ==
    /\ pc[p] = "idle"
    /\ pc' = [pc EXCEPT ![p] = "probe"]
    /\ result' = [result EXCEPT ![p] = "running"]
    /\ store0' = [store0 EXCEPT ![p] = store]
    /\ overlapped' =
           [q \in Procs |->
               IF q = p THEN \E r \in Procs \ {p} : Running(r)
               ELSE overlapped[q] \/ Running(q)]
    /\ UNCHANGED <<clock, store, overflow_checks, cleanlog_vars, cronup_vars,
                   crashed, current_state, previous_state, force_refresh,
                   probe_io, stdout, now_obs, persist_at, trace>>

\* Mutant of ProbeFails: a probe that cannot run counts as "disconnected".
ProbeFailsAsDisconnected(p) ==
    /\ pc[p] = "probe"
    /\ probe_io' = [probe_io EXCEPT ![p] = "error"]
    /\ current_state' = [current_state EXCEPT ![p] = disconnected]
    /\ Goto(p, "read_previous_state")
    /\ UNCHANGED <<clock, store, overflow_checks, cleanlog_vars, cronup_vars,
                   crashed, overlapped, previous_state, force_refresh, stdout,
                   now_obs, persist_at, store0, trace>>

\* main.rs:119-121: the status command cannot be run.
ProbeFails(p) ==
    /\ pc[p] = "probe"
    /\ probe_io' = [probe_io EXCEPT ![p] = "error"]
    /\ Return(p, "err_probe")
    /\ UNCHANGED <<clock, store, overflow_checks, cleanlog_vars, cronup_vars,
                   crashed, overlapped, current_state, previous_state,
                   force_refresh, stdout, now_obs, persist_at, store0, trace>>

\* main.rs:119-134: the status command runs and prints `out`.
Probe(p) ==
    /\ pc[p] = "probe"
    /\ probe_io' = [probe_io EXCEPT ![p] = "ok"]
    /\ \E out \in ProbeOutputs :
          /\ stdout' = [stdout EXCEPT ![p] = out]
          /\ current_state' = [current_state EXCEPT ![p] = CurrentState(out)]
    /\ Goto(p, "read_previous_state")
    /\ UNCHANGED <<clock, store, overflow_checks, cleanlog_vars, cronup_vars,
                   crashed, overlapped, previous_state, force_refresh, now_obs,
                   persist_at, store0, trace>>

\* main.rs:137: unwrap_or_default gives "" for a missing value.
ReadPreviousState(p) ==
    /\ pc[p] = "read_previous_state"
    /\ LET pref == GetPreference(store.previous_state) IN
       previous_state' =
           [previous_state EXCEPT ![p] = IF pref.some THEN pref.val ELSE << >>]
    /\ Goto(p, "eval_force_refresh")
    /\ UNCHANGED <<clock, store, overflow_checks, cleanlog_vars, cronup_vars,
                   crashed, overlapped, current_state, force_refresh, probe_io,
                   stdout, now_obs, persist_at, store0, trace>>

\* The time main.rs:143 reads: the clock, once the stored string has parsed.
ReadsNow(pref) == pref.some /\ ParseU64(pref.val).ok

\* main.rs:140-146 fail: the stored time does not parse (`?`), the clock
\* stands before 1970 (`?`), or the subtraction panics.
EvalForceRefreshFails(p) ==
    /\ pc[p] = "eval_force_refresh"
    /\ LET pref == GetPreference(store.last_refresh_time)
           r    == ForceRefresh(pref, clock, overflow_checks)
       IN  /\ r.kind # "value"
           /\ Return(p, IF r.kind = "panic" THEN "panic_overflow" ELSE r.kind)
           /\ now_obs' = [now_obs EXCEPT ![p] = IF ReadsNow(pref) THEN clock ELSE 0]
    /\ UNCHANGED <<clock, store, overflow_checks, cleanlog_vars, cronup_vars,
                   crashed, overlapped, current_state, previous_state,
                   force_refresh, probe_io, stdout, persist_at, store0, trace>>

\* main.rs:140-150: force_refresh is computed and the branch is taken:
\* the transition path, the silent refresh, or nothing to do (Ok).
EvalForceRefresh(p) ==
    /\ pc[p] = "eval_force_refresh"
    /\ LET pref == GetPreference(store.last_refresh_time)
           r    == ForceRefresh(pref, clock, overflow_checks)
       IN  /\ r.kind = "value"
           /\ force_refresh' = [force_refresh EXCEPT ![p] = r.v]
           /\ now_obs' = [now_obs EXCEPT ![p] = IF ReadsNow(pref) THEN clock ELSE 0]
           /\ IF MustAct(current_state[p], previous_state[p], r.v)
              THEN Goto(p, IF IsTransition(current_state[p], previous_state[p])
                           THEN "log_changed" ELSE "actuate")
              ELSE Return(p, "ok")
    /\ UNCHANGED <<clock, store, overflow_checks, cleanlog_vars, cronup_vars,
                   crashed, overlapped, current_state, previous_state,
                   probe_io, stdout, persist_at, store0, trace>>

\* A variant of LogFails that records the probed state as previous_state
\* before main ends.
LogFailsAfterPersisting(p) ==
    /\ pc[p] \in {"log_changed", "log_before", "log_after"}
    /\ crashed' = [at |-> pc[p], state |-> current_state[p],
                   store0 |-> store0[p]]
    /\ store' = SetPreference(store, "previous_state", current_state[p])
    /\ Return(p, "err_log")
    /\ UNCHANGED <<clock, overflow_checks, cleanlog_vars, cronup_vars,
                   overlapped, locals, trace>>

\* log_message (main.rs:48-62) fails: the directory or the file cannot be
\* created, opened or written; `?` ends main.
LogFails(p) ==
    /\ pc[p] \in {"log_changed", "log_before", "log_after"}
    /\ crashed' = [at |-> pc[p], state |-> current_state[p],
                   store0 |-> store0[p]]
    /\ Return(p, "err_log")
    /\ UNCHANGED <<clock, store, overflow_checks, cleanlog_vars, cronup_vars,
                   overlapped, locals, trace>>

\* main.rs:152-155
LogChanged(p) ==
    /\ pc[p] = "log_changed"
    /\ Emit(p, MsgChanged(previous_state[p], current_state[p]))
    /\ Goto(p, "log_before")
    /\ UNCHANGED <<clock, store, overflow_checks, cleanlog_vars, cronup_vars,
                   crashed, overlapped, locals>>

\* Mutant of LogBefore: the command is run before it is announced.
LogBeforeAfterCall(p) ==
    /\ pc[p] = "log_before"
    /\ trace' = [trace EXCEPT ![p] =
                    @ \o << [op |-> "actuator",
                              args |-> ActuatorArgs(current_state[p]),
                              status |-> 0],
                            MsgBefore(current_state[p]) >>]
    /\ Goto(p, "log_after")
    /\ UNCHANGED <<clock, store, overflow_checks, cleanlog_vars, cronup_vars,
                   crashed, overlapped, locals>>

\* main.rs:159, 170
LogBefore(p) ==
    /\ pc[p] = "log_before"
    /\ Emit(p, MsgBefore(current_state[p]))
    /\ Goto(p, "actuate")
    /\ UNCHANGED <<clock, store, overflow_checks, cleanlog_vars, cronup_vars,
                   crashed, overlapped, locals>>

\* main.rs:160-166, 171-178, 184-199: the command cannot be started.
ActuateFails(p) ==
    /\ pc[p] = "actuate"
    /\ Return(p, "err_actuator")
    /\ UNCHANGED <<clock, store, overflow_checks, cleanlog_vars, cronup_vars,
                   crashed, overlapped, locals, trace>>

\* Mutant of Actuate: a non-zero exit status ends the cycle with an error.
ActuateChecksStatus(p) ==
    /\ pc[p] = "actuate"
    /\ \E status \in {0, 1} :
          /\ Emit(p, [op |-> "actuator",
                      args |-> ActuatorArgs(current_state[p]),
                      status |-> status])
          /\ IF status # 0
             THEN Return(p, "err_actuator")
             ELSE Goto(p, IF IsTransition(current_state[p], previous_state[p])
                          THEN "log_after" ELSE "set_previous_state")
    /\ UNCHANGED <<clock, store, overflow_checks, cleanlog_vars, cronup_vars,
                   crashed, overlapped, locals>>

\* main.rs:160-166, 171-178, 184-199: the command runs to its end; its exit
\* status is not looked at.
Actuate(p) ==
    /\ pc[p] = "actuate"
    /\ \E status \in {0, 1} :
          Emit(p, [op |-> "actuator", args |-> ActuatorArgs(current_state[p]),
                   status |-> status])
    /\ Goto(p, IF IsTransition(current_state[p], previous_state[p])
               THEN "log_after" ELSE "set_previous_state")
    /\ UNCHANGED <<clock, store, overflow_checks, cleanlog_vars, cronup_vars,
                   crashed, overlapped, locals>>

\* main.rs:167, 179
LogAfter(p) ==
    /\ pc[p] = "log_after"
    /\ Emit(p, MsgAfter(current_state[p]))
    /\ Goto(p, "set_previous_state")
    /\ UNCHANGED <<clock, store, overflow_checks, cleanlog_vars, cronup_vars,
                   crashed, overlapped, locals>>

\* Mutant of SetPreviousState: writing the state also forgets the time.
SetPreviousStateClearsTime(p) ==
    /\ pc[p] = "set_previous_state"
    /\ store' = [previous_state |-> CFStr(current_state[p]),
                 last_refresh_time |-> Null]
    /\ Emit(p, [op |-> "set", key |-> "previous_state",
                value |-> current_state[p]])
    /\ Goto(p, "set_last_refresh_time")
    /\ UNCHANGED <<clock, overflow_checks, cleanlog_vars, cronup_vars, crashed,
                   overlapped, locals>>

\* main.rs:204
SetPreviousState(p) ==
    /\ pc[p] = "set_previous_state"
    /\ store' = SetPreference(store, "previous_state", current_state[p])
    /\ Emit(p, [op |-> "set", key |-> "previous_state",
                value |-> current_state[p]])
    /\ Goto(p, "set_last_refresh_time")
    /\ UNCHANGED <<clock, overflow_checks, cleanlog_vars, cronup_vars, crashed,
                   overlapped, locals>>

\* Mutant of RefreshTimeValue: the time read for force_refresh is reused.
DecisionTimeValue(p) == now_obs[p]

\* main.rs:207-210: the time that is persisted is read here, anew.
RefreshTimeValue(p) == clock

\* Mutant of SetLastRefreshTime: the second write is left out.
SetLastRefreshTimeSkipped(p) ==
    /\ pc[p] = "set_last_refresh_time"
    /\ persist_at' = [persist_at EXCEPT ![p] = clock]
    /\ Return(p, "ok")
    /\ UNCHANGED <<clock, store, overflow_checks, cleanlog_vars, cronup_vars,
                   crashed, overlapped, current_state, previous_state,
                   force_refresh, probe_io, stdout, now_obs, store0, trace>>

\* main.rs:207-208 fail: the clock stands before 1970 and `?` ends main,
\* after previous_state has been written.
SetLastRefreshTimeFails(p) ==
    /\ pc[p] = "set_last_refresh_time"
    /\ BeforeEpoch(clock)
    /\ Return(p, "err_time")
    /\ UNCHANGED <<clock, store, overflow_checks, cleanlog_vars, cronup_vars,
                   crashed, overlapped, locals, trace>>

\* main.rs:205-211, then Ok(()) at main.rs:214
SetLastRefreshTime(p) ==
    /\ pc[p] = "set_last_refresh_time"
    /\ ~BeforeEpoch(clock)
    /\ store' = SetPreference(store, "last_refresh_time",
                              U64ToString(RefreshTimeValue(p)))
    /\ Emit(p, [op |-> "set", key |-> "last_refresh_time",
                value |-> U64ToString(RefreshTimeValue(p))])
    /\ persist_at' = [persist_at EXCEPT ![p] = clock]
    /\ Return(p, "ok")
    /\ UNCHANGED <<clock, overflow_checks, cleanlog_vars, cronup_vars, crashed,
                   overlapped, current_state, previous_state, force_refresh,
                   probe_io, stdout, now_obs, store0>>

\* set_preference (main.rs:100-114) cannot report a failure: it returns (),
\* and the Boolean of CFPreferencesAppSynchronize (main.rs:112) is dropped.
\* A write the preferences service refuses leaves the store as it was and
\* main goes on.
SetPreviousStateLost(p) ==
    /\ pc[p] = "set_previous_state"
    /\ Emit(p, [op |-> "set_lost", key |-> "previous_state",
                value |-> current_state[p]])
    /\ Goto(p, "set_last_refresh_time")
    /\ UNCHANGED <<clock, store, overflow_checks, cleanlog_vars, cronup_vars,
                   crashed, overlapped, locals>>

SetLastRefreshTimeLost(p) ==
    /\ pc[p] = "set_last_refresh_time"
    /\ Emit(p, [op |-> "set_lost", key |-> "last_refresh_time",
                value |-> U64ToString(RefreshTimeValue(p))])
    /\ persist_at' = [persist_at EXCEPT ![p] = clock]
    /\ Return(p, "ok")
    /\ UNCHANGED <<clock, store, overflow_checks, cleanlog_vars, cronup_vars,
                   crashed, overlapped, current_state, previous_state,
                   force_refresh, probe_io, stdout, now_obs, store0>>

\* The process is gone; its exit status has been seen.
ProcessExit(p) ==
    /\ pc[p] = "done"
    /\ pc' = [pc EXCEPT ![p] = "idle"]
    /\ result' = [result EXCEPT ![p] = "none"]
    /\ current_state' = [current_state EXCEPT ![p] = << >>]
    /\ previous_state' = [previous_state EXCEPT ![p] = << >>]
    /\ force_refresh' = [force_refresh EXCEPT ![p] = FALSE]
    /\ probe_io' = [probe_io EXCEPT ![p] = "none"]
    /\ stdout' = [stdout EXCEPT ![p] = << >>]
    /\ now_obs' = [now_obs EXCEPT ![p] = 0]
    /\ persist_at' = [persist_at EXCEPT ![p] = 0]
    /\ store0' = [store0 EXCEPT ![p] = EmptyStore]
    /\ trace' = [trace EXCEPT ![p] = << >>]
    /\ crashed' = IF result[p] \in {"killed", "err_log"} THEN crashed
                  ELSE NoCrash
    /\ overlapped' = [overlapped EXCEPT ![p] = FALSE]
    /\ UNCHANGED <<clock, store, overflow_checks, cleanlog_vars, cronup_vars>>

\* The process is killed (SIGKILL, power loss) somewhere inside main; what
\* it has written so far stays written.
Kill(p) ==
    /\ Running(p)
    /\ crashed' = [at |-> pc[p], state |-> current_state[p],
                   store0 |-> store0[p]]
    /\ Return(p, "killed")
    /\ UNCHANGED <<clock, store, overflow_checks, cleanlog_vars, cronup_vars,
                   overlapped, locals, trace>>

(***************************************************************************)
(* The environment                                                         *)
(***************************************************************************)

\* Time passes (also while a cycle waits for an external command).
Tick ==
    /\ \E t \in Times : t > clock /\ clock' = t
    /\ UNCHANGED <<store, overflow_checks, cleanlog_vars, cronup_vars, crashed,
                   overlapped, pc, result, locals, trace>>

\* The system time is set back between two cycles.
ClockJumpBack ==
    /\ \A p \in Procs : pc[p] = "idle"
    /\ \E t \in Times : t < clock /\ clock' = t
    /\ UNCHANGED <<store, overflow_checks, cleanlog_vars, cronup_vars, crashed,
                   overlapped, pc, result, locals, trace>>

\* The system time is set to a moment before 1970, between two cycles.
BEFORE_EPOCH == 0 - 1

ClockBeforeEpoch ==
    /\ \A p \in Procs : pc[p] = "idle"
    /\ ~BeforeEpoch(clock)
    /\ clock' = BEFORE_EPOCH
    /\ UNCHANGED <<store, overflow_checks, cleanlog_vars, cronup_vars, crashed,
                   overlapped, pc, result, locals, trace>>

\* Values an administrator (`defaults write`, `defaults delete`) or a
\* damaged plist can leave under the two keys.
AdminPreviousStates ==
    { Null, CFStr(connected), CFStr(disconnected), CFStr(CONNECTED_MARKER),
      CFOther }

AdminRefreshTimes ==
    { Null, CFOther, CFDateAt(0), CFDateAt(0 - CF_EPOCH_OFFSET - 1),
      CFStr(<< >>), CFStr(<<"1", "2", "x">>),
      CFStr(<<"1", "8", "4", "4", "6", "7", "4", "4", "0", "7", "3", "7",
              "0", "9", "5", "5", "1", "6", "1", "6">>) }

\* The store is edited from outside, while no cycle runs.  The next cycle
\* no longer starts from what the cycle before it left.
AdminEdit ==
    /\ \A p \in Procs : pc[p] = "idle"
    /\ \/ \E v \in AdminPreviousStates :
             store' = [store EXCEPT !.previous_state = v]
       \/ \E v \in AdminRefreshTimes :
             store' = [store EXCEPT !.last_refresh_time = v]
    /\ crashed' = NoCrash
    /\ UNCHANGED <<clock, overflow_checks, cleanlog_vars, cronup_vars,
                   overlapped, pc, result, locals, trace>>

(***************************************************************************)
(* cleanlog: clean_log_file (src/Helpers/cleanlog/src/main.rs:56-127)      *)
(***************************************************************************)

\* The longest log file of the model, in lines.
MaxLines == 2

SECONDS_PER_DAY == 24 * 60 * 60

\* retention_days of LOG_CONFIGS (cleanlog main.rs:25-46)
RetentionDays == {1, 3, 5, 7}

\* What Utc::now().naive_utc() gives (cleanlog main.rs:89), in seconds.
CleanTime == 30 * SECONDS_PER_DAY

\* A line is a sequence of pieces: a one-byte character, a character whose
\* UTF-8 encoding takes two bytes, or the 19 bytes "YYYY-MM-DD HH:MM:SS"
\* that spell the moment ts.
Ch(c)    == [kind |-> "char",  ch |-> c,  ts |-> 0]
Wide(c)  == [kind |-> "wide",  ch |-> c,  ts |-> 0]
Stamp(t) == [kind |-> "stamp", ch |-> "", ts |-> t]

\* cleanlog main.rs:66: the slice [1..20] holds 19 bytes.
STAMP_BYTES == 19

\* cleanlog main.rs:61
MIN_LINE_BYTES == 21

ByteLen(piece) ==
    IF piece.kind = "stamp" THEN STAMP_BYTES
    ELSE IF piece.kind = "wide" THEN 2
    ELSE 1

\* The byte offset at which piece i of the line starts (i = Len + 1: the
\* end of the line).
Offset(line, i) ==
    LET acc[n \in 0..Len(line)] ==
            IF n = 0 THEN 0 ELSE acc[n - 1] + ByteLen(line[n])
    IN  acc[i - 1]

\* str::len (cleanlog main.rs:61): the length in bytes.
LineLen(line) == Offset(line, Len(line) + 1)

\* str::is_char_boundary, which the slice at cleanlog main.rs:66 asserts:
\* a byte offset inside a two-byte character is not a boundary.
IsCharBoundary(line, b) ==
    \/ b = LineLen(line)
    \/ \E i \in 1..Len(line) :
          \/ Offset(line, i) = b
          \/ /\ line[i].kind = "stamp"
             /\ Offset(line, i) < b
             /\ b < Offset(line, i + 1)

\* parse_timestamp (cleanlog main.rs:59-70).  Bytes 1..19 of the line parse
\* as "%Y-%m-%d %H:%M:%S" when they are exactly such a stamp, whatever byte
\* 0 and byte 20 are; the slice panics when it cuts a character in two.
ParseTimestamp(line) ==
    IF LineLen(line) < MIN_LINE_BYTES THEN [kind |-> "none", ts |-> 0]
    ELSE IF ~IsCharBoundary(line, 1) \/ ~IsCharBoundary(line, 1 + STAMP_BYTES)
    THEN [kind |-> "panic", ts |-> 0]
    ELSE IF /\ Len(line) >= 2
            /\ ByteLen(line[1]) = 1
            /\ line[2].kind = "stamp"
    THEN [kind |-> "some", ts |-> line[2].ts]
    ELSE [kind |-> "none", ts |-> 0]

\* should_keep (cleanlog main.rs:105-112)
ShouldKeep(line, current_time, retention_days) ==
    LET parsed == ParseTimestamp(line) IN
    IF parsed.kind = "some"
    THEN current_time - parsed.ts <= retention_days * SECONDS_PER_DAY
    ELSE TRUE

\* The moments the lines of the model are stamped with: a day ahead, now,
\* exactly one day ago, a second more than that, eight days ago.
StampTimes ==
    { CleanTime + SECONDS_PER_DAY, CleanTime, CleanTime - SECONDS_PER_DAY,
      CleanTime - SECONDS_PER_DAY - 1, CleanTime - 8 * SECONDS_PER_DAY }

OldStamp == Stamp(CleanTime - 8 * SECONDS_PER_DAY)

\* The lines a log file of the model is made of.
LogLineKinds ==
    { <<Ch("["), Stamp(t), Ch("]"), Ch(" "), Ch("m")>> : t \in StampTimes }
    \cup { <<Ch("x"), Stamp(t), Ch("y"), Ch("m")>> :
              t \in {CleanTime, CleanTime - 8 * SECONDS_PER_DAY} }
    \cup { <<Ch("["), OldStamp, Ch("]")>>,
           <<Ch("["), OldStamp, Ch(" "), Ch("m")>>,
           <<Ch("["), OldStamp>>,
           <<OldStamp, Ch("]"), Ch(" "), Ch("m")>>,
           <<Wide("e"), OldStamp, Ch("]")>>,
           <<Ch("m"), Ch("s"), Ch("g")>> }

reconciler_vars ==
    <<clock, store, overflow_checks, pc, current_state, previous_state,
      force_refresh, result, probe_io, stdout, now_obs, persist_at, store0,
      trace, crashed, overlapped>>

\* A program appends a line to the log, creating the file when it is
\* missing.
AppendLine ==
    /\ Len(log_file.lines) < MaxLines
    /\ \E line \in LogLineKinds :
          log_file' = [exists |-> TRUE, lines |-> Append(log_file.lines, line)]
    /\ clean_call' = NoCall
    /\ clean_result' = [kind |-> "none", n |-> 0]
    /\ UNCHANGED <<reconciler_vars, cronup_vars>>

\* The log file is deleted.
RemoveLogFile ==
    /\ log_file.exists
    /\ log_file' = NoFile
    /\ clean_call' = NoCall
    /\ clean_result' = [kind |-> "none", n |-> 0]
    /\ UNCHANGED <<reconciler_vars, cronup_vars>>

\* The lines clean_log_file writes to the temporary file
\* (cleanlog main.rs:98-120).
KeptLines(lines, current_time, retention_days) ==
    LET Keep(line) == ShouldKeep(line, current_time, retention_days)
    IN  SelectSeq(lines, Keep)

\* clean_log_file (cleanlog main.rs:75-127).  A panic in parse_timestamp
\* leaves the loop before temp_file.persist: the file stays as it was.
CleanLogFile ==
    /\ clean_result.kind = "none"
    /\ \E retention_days \in RetentionDays :
          LET current_time == CleanTime
              kept == KeptLines(log_file.lines, current_time, retention_days)
          IN  /\ clean_call' = [retention_days |-> retention_days,
                                current_time |-> current_time,
                                file |-> log_file]
              /\ IF ~log_file.exists
                 THEN /\ clean_result' = [kind |-> "ok", n |-> 0]
                      /\ UNCHANGED log_file
                 ELSE IF \E i \in 1..Len(log_file.lines) :
                            ParseTimestamp(log_file.lines[i]).kind = "panic"
                 THEN /\ clean_result' = [kind |-> "panic", n |-> 0]
                      /\ UNCHANGED log_file
                 ELSE /\ clean_result' =
                            [kind |-> "ok",
                             n |-> Len(log_file.lines) - Len(kept)]
                      /\ log_file' = [exists |-> TRUE, lines |-> kept]
    /\ UNCHANGED <<reconciler_vars, cronup_vars>>

(***************************************************************************)
(* cronup: main (cronup main.rs:27-140)                                    *)
(***************************************************************************)

\* cronup main.rs:40-71: the three calls of run_commands_and_log, each
\* with the name of its log file and its commands.
BREW_COMMANDS ==
    << "/opt/homebrew/bin/brew update",
       "/opt/homebrew/bin/brew upgrade",
       "/opt/homebrew/bin/brew cleanup" >>
CARGO_COMMANDS  == << "~/.dev/cargo/bin/cargo install-update -a" >>
RUSTUP_COMMANDS == << "~/.dev/cargo/bin/rustup update" >>

\* cronup main.rs:76
NVIM_COMMAND == "/opt/homebrew/bin/nvim"

\* The groups in the order main calls them; the last one is not run
\* through the shell.
Groups      == << "brew", "cargo", "rustup", "nvim" >>
ShellGroups == { "brew", "cargo", "rustup" }

Commands(name) ==
    CASE name = "brew"   -> BREW_COMMANDS
      [] name = "cargo"  -> CARGO_COMMANDS
      [] name = "rustup" -> RUSTUP_COMMANDS
      [] name = "nvim"   -> << NVIM_COMMAND >>

GroupIndex(name) == CHOOSE i \in 1..Len(Groups) : Groups[i] = name

\* Where main goes after the group: the next group, or its end.
AfterGroup(name) ==
    IF GroupIndex(name) < Len(Groups)
    THEN Groups[GroupIndex(name) + 1] ELSE "done"

\* `bash -c "c1 && c2 && ..."` (cronup main.rs:189-197): the commands run
\* in order up to and including the first one that fails.  succeeds[i] is
\* whether the i-th command exits with status 0 when it is run.
RanByShell(name, commands, succeeds) ==
    LET Stops(i) == ~succeeds[i]
        last == IF \E i \in 1..Len(commands) : Stops(i)
                THEN CHOOSE i \in 1..Len(commands) :
                        Stops(i) /\ \A j \in 1..(i - 1) : ~Stops(j)
                ELSE Len(commands)
    IN  [ i \in 1..last |->
            [ group |-> name, command |-> commands[i],
              success |-> succeeds[i] ] ]

\* `line.trim().is_empty()` (cronup main.rs:119, 216, 230)
IsBlankLine(line) == \A i \in 1..Len(line) : line[i] \in {" ", "\t"}

\* The loops of cronup main.rs:212-220 and 226-234 over one captured
\* stream: BufRead::lines yields Err for a line that is not UTF-8, and
\* `line?` returns it; the lines before it have been written.
LoggedLines(bytes) ==
    LET lines == Lines(bytes)
        Bad(i) == HasInvalidByte(lines[i])
        stop  == IF \E i \in 1..Len(lines) : Bad(i)
                 THEN CHOOSE i \in 1..Len(lines) :
                         Bad(i) /\ \A j \in 1..(i - 1) : ~Bad(j)
                 ELSE Len(lines) + 1
        Kept(line) == ~IsBlankLine(line)
    IN  [ written |-> SelectSeq(SubSeq(lines, 1, stop - 1), Kept),
          err     |-> stop <= Len(lines) ]

\* cronup main.rs:115-124 and 127-136: String::from_utf8 of the whole
\* stream; when it fails the stream is skipped, without an error.
NvimLoggedLines(bytes) ==
    IF HasInvalidByte(bytes) THEN << >>
    ELSE LET Kept(line) == ~IsBlankLine(line)
         IN  SelectSeq(Lines(bytes), Kept)

\* A line of a log file of this run.
LogEntry(name, kind, text) == [ file |-> name, kind |-> kind, text |-> text ]

OutputEntries(name, lines) ==
    [ i \in 1..Len(lines) |-> LogEntry(name, "output", lines[i]) ]

\* What a command may print to one of its streams: nothing, a line, a
\* blank line and a line, a line that is not UTF-8, a line and then a line
\* that is not UTF-8.
StreamNone        == << >>
StreamText        == << "o", "k", "\n" >>
StreamBlankText   == << " ", "\n" >> \o StreamText
StreamInvalid     == << "n", "o", INVALID_BYTE, "\n" >>
StreamTextInvalid == StreamText \o StreamInvalid
Streams ==
    { StreamNone, StreamText, StreamBlankText, StreamInvalid,
      StreamTextInvalid }

\* main ends (cronup main.rs:36, 139, or an Err through `?`).
CronupReturn(how) ==
    /\ cronup_pc' = "done"
    /\ cronup_result' = how

\* launchd starts cronup.
CronupStart ==
    /\ cronup_pc = "idle"
    /\ cronup_pc' = "check_network"
    /\ cronup_result' = "running"
    /\ UNCHANGED <<online, commands_run, cronup_log, reconciler_vars,
                   cleanlog_vars>>

\* check_network (cronup main.rs:144-154): whether the TCP connection to
\* 9.9.9.9:53 is made within the timeout; never an Err.
CheckNetwork ==
    /\ cronup_pc = "check_network"
    /\ \E connects \in BOOLEAN :
          /\ online' = IF connects THEN "true" ELSE "false"
          /\ cronup_pc' = IF connects THEN Groups[1] ELSE "log_offline"
    /\ UNCHANGED <<commands_run, cronup_log, cronup_result, reconciler_vars,
                   cleanlog_vars>>

\* log_offline (cronup main.rs:157-175), then `return Ok(())`.
LogOffline ==
    /\ cronup_pc = "log_offline"
    /\ cronup_log' = Append(cronup_log, LogEntry("offline", "offline", << >>))
    /\ CronupReturn("ok")
    /\ UNCHANGED <<online, commands_run, reconciler_vars, cleanlog_vars>>

\* log_offline fails: the log file cannot be opened or written.
LogOfflineFails ==
    /\ cronup_pc = "log_offline"
    /\ CronupReturn("err_log")
    /\ UNCHANGED <<online, commands_run, cronup_log, reconciler_vars,
                   cleanlog_vars>>

\* run_commands_and_log (cronup main.rs:179-238) as called at main.rs:40,
\* 54 and 64: bash runs the list, then the two streams are copied to the
\* log file.  The exit status of bash is not looked at.
RunCommandsAndLog(name) ==
    /\ name \in ShellGroups
    /\ cronup_pc = name
    /\ \E succeeds \in [1..Len(Commands(name)) -> BOOLEAN],
          out \in Streams, err \in Streams :
          LET o == LoggedLines(out)
              e == LoggedLines(err)
              written == IF o.err THEN o.written
                         ELSE o.written \o e.written
          IN  /\ commands_run' =
                    commands_run \o RanByShell(name, Commands(name), succeeds)
              /\ cronup_log' = cronup_log \o OutputEntries(name, written)
              /\ IF o.err \/ e.err
                 THEN CronupReturn("err_utf8")
                 ELSE /\ cronup_pc' = AfterGroup(name)
                      /\ UNCHANGED cronup_result
    /\ UNCHANGED <<online, reconciler_vars, cleanlog_vars>>

\* Command::output() fails (cronup main.rs:197): bash cannot be started.
RunCommandsSpawnFails(name) ==
    /\ name \in ShellGroups
    /\ cronup_pc = name
    /\ CronupReturn("err_spawn")
    /\ UNCHANGED <<online, commands_run, cronup_log, reconciler_vars,
                   cleanlog_vars>>

\* The log file cannot be opened (cronup main.rs:203-206), after the
\* commands have run.
RunCommandsLogFails(name) ==
    /\ name \in ShellGroups
    /\ cronup_pc = name
    /\ \E succeeds \in [1..Len(Commands(name)) -> BOOLEAN] :
          commands_run' =
              commands_run \o RanByShell(name, Commands(name), succeeds)
    /\ CronupReturn("err_log")
    /\ UNCHANGED <<online, cronup_log, reconciler_vars, cleanlog_vars>>

\* cronup main.rs:76-139: nvim is run, one line says whether it succeeded,
\* then the streams that are UTF-8 are copied to the log file.
RunNvim ==
    /\ cronup_pc = "nvim"
    /\ \E success \in BOOLEAN, out \in Streams, err \in Streams :
          /\ commands_run' =
                Append(commands_run,
                       [ group |-> "nvim", command |-> NVIM_COMMAND,
                         success |-> success ])
          /\ cronup_log' =
                cronup_log
                \o << LogEntry("nvim",
                               IF success THEN "completed successfully"
                               ELSE "failed", << >>) >>
                \o OutputEntries("nvim", NvimLoggedLines(out)
                                         \o NvimLoggedLines(err))
    /\ CronupReturn("ok")
    /\ UNCHANGED <<online, reconciler_vars, cleanlog_vars>>

\* spawn() or wait_with_output() fails (cronup main.rs:85-86).
RunNvimSpawnFails ==
    /\ cronup_pc = "nvim"
    /\ CronupReturn("err_spawn")
    /\ UNCHANGED <<online, commands_run, cronup_log, reconciler_vars,
                   cleanlog_vars>>

\* The nvim log file cannot be opened (cronup main.rs:95-98), after nvim
\* has run.
RunNvimLogFails ==
    /\ cronup_pc = "nvim"
    /\ \E success \in BOOLEAN :
          commands_run' =
              Append(commands_run,
                     [ group |-> "nvim", command |-> NVIM_COMMAND,
                       success |-> success ])
    /\ CronupReturn("err_log")
    /\ UNCHANGED <<online, cronup_log, reconciler_vars, cleanlog_vars>>

\* The process is gone; the next run starts with nothing run or logged.
CronupExit ==
    /\ cronup_pc = "done"
    /\ cronup_pc' = "idle"
    /\ online' = "none"
    /\ commands_run' = << >>
    /\ cronup_log' = << >>
    /\ cronup_result' = "none"
    /\ UNCHANGED <<reconciler_vars, cleanlog_vars>>

(***************************************************************************)
(* Specifications                                                          *)
(***************************************************************************)

\* The steps of a cycle in which nothing fails.
Run(p) ==
    \/ StartCycle(p)
    \/ Probe(p)
    \/ ReadPreviousState(p)
    \/ EvalForceRefresh(p)
    \/ LogChanged(p)
    \/ LogBefore(p)
    \/ Actuate(p)
    \/ LogAfter(p)
    \/ SetPreviousState(p)
    \/ SetLastRefreshTime(p)
    \/ ProcessExit(p)

\* An external command cannot be run, or the log cannot be written.
CollaboratorFails(p) ==
    \/ ProbeFails(p)
    \/ LogFails(p)
    \/ ActuateFails(p)

\* The steps that end a cycle with an error.
Fail(p) == CollaboratorFails(p) \/ EvalForceRefreshFails(p)

Step(p) == Run(p) \/ Fail(p)

Env == Tick \/ ClockJumpBack \/ AdminEdit

\* One reconciler at a time; the preferences service stores what it is given.
Next == Env \/ \E p \in Sched : Step(p)

Spec == Init /\ [][Next]_vars

\* As Spec, and the preferences service may refuse a write.
NextStoreFault ==
    \/ Next
    \/ \E p \in Sched : SetPreviousStateLost(p) \/ SetLastRefreshTimeLost(p)

SpecStoreFault == Init /\ [][NextStoreFault]_vars

\* As Spec, and the system clock may stand before 1970.
NextClockFault ==
    \/ Next
    \/ ClockBeforeEpoch
    \/ \E p \in Sched : SetLastRefreshTimeFails(p)

SpecClockFault == Init /\ [][NextClockFault]_vars

\* The reconciler is invoked again and again while time advances: the clock
\* only moves forward and nobody edits the store.  The scheduler keeps
\* starting the program and the program keeps running to its end (weak
\* fairness); an external command or the log sink may fail any number of
\* times, but not forever (strong fairness of the successful outcomes).
NextLive == Tick \/ \E p \in Sched : Run(p) \/ CollaboratorFails(p)

Fairness ==
    /\ WF_vars(Tick)
    /\ \A p \in Sched :
          /\ WF_vars(Run(p) \/ CollaboratorFails(p))
          /\ SF_vars(Probe(p))
          /\ SF_vars(LogChanged(p))
          /\ SF_vars(LogBefore(p))
          /\ SF_vars(Actuate(p))
          /\ SF_vars(LogAfter(p))

SpecLive == Init /\ [][NextLive]_vars /\ Fairness

\* One reconciler at a time, started again and again while time advances;
\* a cycle can be killed at any statement.
NextCrash == Tick \/ \E p \in Sched : Run(p) \/ CollaboratorFails(p) \/ Kill(p)

SpecCrash == Init /\ [][NextCrash]_vars

\* Two reconciler instances, started independently of each other (a second
\* launchd job, a manual run), within one minute: nothing keeps one from
\* running while the other does.  Every step is atomic; the store is read
\* and written key by key.
NextOverlap == \E p \in Procs : Run(p)

SpecOverlap == Init /\ [][NextOverlap]_vars

\* cleanlog and the programs that write the log file it cleans.
NextCleanLog == AppendLine \/ RemoveLogFile \/ CleanLogFile

SpecCleanLog == Init /\ [][NextCleanLog]_vars

\* cronup started again and again; the network may be down, bash or nvim
\* may fail to start, the log files may be unwritable.
NextCronup ==
    \/ CronupStart
    \/ CheckNetwork
    \/ LogOffline
    \/ LogOfflineFails
    \/ \E name \in ShellGroups :
          \/ RunCommandsAndLog(name)
          \/ RunCommandsSpawnFails(name)
          \/ RunCommandsLogFails(name)
    \/ RunNvim
    \/ RunNvimSpawnFails
    \/ RunNvimLogFails
    \/ CronupExit

SpecCronup == Init /\ [][NextCronup]_vars

(***************************************************************************)
(* What a cycle did, read off its record                                   *)
(***************************************************************************)

IsActuator(e) == e.op = "actuator"
IsLog(e)      == e.op = "log"
IsSet(e)      == e.op = "set"

ActuatorCalls(p) == SelectSeq(trace[p], IsActuator)
LogLines(p)      == SelectSeq(trace[p], IsLog)
StoreWrites(p)   == SelectSeq(trace[p], IsSet)

\* The cycle of p is over (main has returned or panicked).
Ended(p) == pc[p] = "done"

\* The probe ran, so there is a probed state.
Probed(p) == probe_io[p] = "ok"

\* previous_state as persisted when the cycle started ("" when absent).
Prev0(p) ==
    IF store0[p].previous_state.t = "string"
    THEN store0[p].previous_state.s ELSE << >>

\* last_refresh_time as persisted when the cycle started.
Last0(p) == store0[p].last_refresh_time

\* The persisted time is a time: a decimal string or a date.
IsTime(v) ==
    \/ v.t = "string" /\ ParseU64(v.s).ok
    \/ v.t = "date"

TimeOf(v) ==
    IF v.t = "string" THEN ParseU64(v.s).val ELSE AsU64(v.abs + CF_EPOCH_OFFSET)

\* The collaborators worked: the log sink took every line and the Little
\* Snitch command could be started.
NoCollaboratorFault(p) == result[p] \notin {"err_log", "err_actuator"}

\* The log lines of the cycle that name both the old and the new state.
LinesNaming(p, old, new) ==
    { i \in 1..Len(trace[p]) :
        IsLog(trace[p][i]) /\ trace[p][i].args = <<old, new>> }

\* "disable" for Connected, "enable 'VPN Off'" for Disconnected
MatchingCall(p, call) ==
    \/ current_state[p] = connected /\ call.args = <<"profile", "-d">>
    \/ current_state[p] = disconnected
         /\ call.args = <<"profile", "-a", "VPN Off">>

OneMatchingCall(p) ==
    /\ Len(ActuatorCalls(p)) = 1
    /\ MatchingCall(p, ActuatorCalls(p)[1])

(***************************************************************************)
(* Claims                                                                  *)
(***************************************************************************)

\* C1: in every cycle whose probed state differs from the persisted
\* previous_state (absent counts as ""), whatever time last_refresh_time
\* holds (or none), and with the log sink and the Little Snitch command
\* working, the cycle makes exactly one Actuator call matching the probed
\* state, writes exactly one log line naming the old and the new state, and
\* ends with previous_state persisted as the probed state.
C1_TransitionCycleActs ==
    \A p \in Sched :
        ( /\ Ended(p) /\ Probed(p)
          /\ current_state[p] # Prev0(p)
          /\ (Last0(p) = Null \/ IsTime(Last0(p)))
          /\ NoCollaboratorFault(p) )
        => /\ OneMatchingCall(p)
           /\ Cardinality(LinesNaming(p, Prev0(p), current_state[p])) = 1
           /\ store.previous_state = CFStr(current_state[p])

\* C2: in every cycle whose probed state equals the persisted
\* previous_state and in which now - last_refresh_time < 60, no Actuator
\* call is made, nothing is logged and both keys keep their values.
C2_NoOpStability ==
    \A p \in Sched :
        ( /\ Ended(p) /\ Probed(p)
          /\ current_state[p] = Prev0(p)
          /\ IsTime(Last0(p))
          /\ now_obs[p] - TimeOf(Last0(p)) < REFRESH_SECS )
        => /\ ActuatorCalls(p) = << >>
           /\ LogLines(p) = << >>
           /\ store = store0[p]

C4_InitialRun ==
    \A p \in Sched :
        ( /\ Ended(p) /\ Probed(p)
          /\ store0[p] = EmptyStore
          /\ NoCollaboratorFault(p) )
        => /\ result[p] = "ok"
           /\ OneMatchingCall(p)
           /\ store.previous_state # Null
           /\ store.last_refresh_time # Null

\* C4 witness: a first run with probed state Disconnected has ended.
C4_Witness ==
    \E p \in Sched :
        /\ Ended(p) /\ result[p] = "ok"
        /\ store0[p] = EmptyStore
        /\ current_state[p] = disconnected
        /\ store.previous_state = CFStr(disconnected)
        /\ store.last_refresh_time # Null

\* C6 (as claimed): after every successful cycle that performed an action,
\* the persisted last_refresh_time equals the `now` that force_refresh was
\* evaluated with, also when the clock advanced during the cycle.
C6_PersistsDecisionTime ==
    \A p \in Sched :
        ( /\ Ended(p) /\ result[p] = "ok"
          /\ ActuatorCalls(p) # << >>
          /\ now_obs[p] # 0 )
        => store.last_refresh_time = CFStr(U64ToString(now_obs[p]))

\* C6 (amended): after every successful cycle that performed an action, the
\* persisted last_refresh_time is the clock as read anew when the record is
\* written, after the Actuator command returned: it is never before the
\* `now` force_refresh was evaluated with, and later when the clock
\* advanced in between.
C6_PersistsWriteTime ==
    \A p \in Sched :
        ( /\ Ended(p) /\ result[p] = "ok"
          /\ ActuatorCalls(p) # << >> )
        => /\ store.last_refresh_time = CFStr(U64ToString(persist_at[p]))
           /\ now_obs[p] <= persist_at[p]

\* C6 witness: the clock advanced between the decision and the write.
C6_Witness ==
    \E p \in Sched :
        /\ Ended(p) /\ result[p] = "ok"
        /\ ActuatorCalls(p) # << >>
        /\ now_obs[p] # 0
        /\ persist_at[p] > now_obs[p]
        /\ store.last_refresh_time = CFStr(U64ToString(persist_at[p]))

\* C7: when the status command cannot be executed, the cycle ends with an
\* error, makes no Actuator call, writes no log line, and leaves both keys
\* as they were before the cycle.
C7_ProbeFailureNonDestructive ==
    \A p \in Sched :
        probe_io[p] = "error"
        => /\ Ended(p)
           /\ result[p] = "err_probe"
           /\ ActuatorCalls(p) = << >>
           /\ LogLines(p) = << >>
           /\ store = store0[p]

\* C7 witness: the probe failed over a store that holds a record.
C7_Witness ==
    \E p \in Sched :
        /\ probe_io[p] = "error"
        /\ Ended(p)
        /\ store.previous_state = CFStr(connected)
        /\ store.last_refresh_time # Null

\* C8 (as claimed): when the status command runs and its output cannot be
\* decoded as text, the cycle is aborted with an error: no ConnectionState
\* is derived, no Actuator call is made, the store is not changed.
C8_UndecodableOutputAborts ==
    \A p \in Sched :
        (probe_io[p] = "ok" /\ HasInvalidByte(stdout[p]))
        => /\ Ended(p)
           /\ result[p] \notin {"ok", "running"}
           /\ current_state[p] = << >>
           /\ ActuatorCalls(p) = << >>
           /\ store = store0[p]

\* C8 (amended): when the status command runs, output that is not valid
\* UTF-8 does not abort the cycle: every invalid byte is replaced by U+FFFD
\* and a ConnectionState is derived from the result, Connected exactly when
\* a line still holds both markers; the cycle goes on to the decision.
C8_UndecodableOutputIsReplaced ==
    \A p \in Sched :
        (probe_io[p] = "ok" /\ HasInvalidByte(stdout[p]))
        => /\ result[p] # "err_probe"
           /\ pc[p] # "probe"
           /\ (stdout[p] = OutBadByteOk => current_state[p] = connected)
           /\ (stdout[p] = OutBadByteIn => current_state[p] = disconnected)
           /\ current_state[p] \in {connected, disconnected}

\* C8 witness: a cycle whose probe output had an invalid byte inside the
\* connected marker has acted, as for Disconnected.
C8_Witness ==
    \E p \in Sched :
        /\ stdout[p] = OutBadByteIn
        /\ Ended(p) /\ result[p] = "ok"
        /\ Len(ActuatorCalls(p)) = 1
        /\ ActuatorCalls(p)[1].args = <<"profile", "-a", "VPN Off">>

\* A preference write of the cycle was refused after the Actuator call.
WriteLostAfterActuator(p) ==
    \E i, j \in 1..Len(trace[p]) :
        i < j /\ IsActuator(trace[p][i]) /\ trace[p][j].op = "set_lost"

\* C9: when persisting the record fails after the Actuator call ran, the
\* cycle ends with an error reported to the caller (and the Actuator's
\* effect stands: no further Actuator call undoes it).
C9_StoreWriteFailureSurfaced ==
    \A p \in Sched :
        (Ended(p) /\ WriteLostAfterActuator(p))
        => /\ result[p] # "ok"
           /\ Len(ActuatorCalls(p)) = 1

\* The persisted value exists and is not an integer: a string that does not
\* parse, or a value that is neither a string nor a date.
ExistsUnparseable(v) == v # Null /\ ~IsTime(v)

\* C10: a persisted last_refresh_time that exists and is not parseable as an
\* integer makes the cycle fail with an error for every probed state: it is
\* never treated as absent, no Actuator call is made, the store is left
\* unchanged.
C10_MalformedTimeIsFatal ==
    \A p \in Sched :
        ( /\ Ended(p) /\ Probed(p)
          /\ ExistsUnparseable(Last0(p))
          /\ NoCollaboratorFault(p) )
        => /\ result[p] = "err_parse"
           /\ ActuatorCalls(p) = << >>
           /\ store = store0[p]

\* No cycle runs, and the last application is absent or at least 60 seconds
\* before the end of the modelled time.
ReassertionDue ==
    /\ \A p \in Sched : pc[p] = "idle"
    /\ \/ store.last_refresh_time = Null
       \/ /\ IsTime(store.last_refresh_time)
          /\ TimeOf(store.last_refresh_time) + REFRESH_SECS <= MaxTime

\* The Actuator has just been called with the action matching the probed
\* state.
JustActuated ==
    \E p \in Sched :
        /\ pc[p] \in {"log_after", "set_previous_state"}
        /\ OneMatchingCall(p)

\* A cycle that ended 60 seconds or more after the previous application,
\* with the collaborators working, has called the Actuator.
StaleCycleActs ==
    \A p \in Sched :
        ( /\ Ended(p) /\ Probed(p) /\ NoCollaboratorFault(p)
          /\ IsTime(Last0(p))
          /\ now_obs[p] - TimeOf(Last0(p)) >= REFRESH_SECS )
        => OneMatchingCall(p)

C11_BackwardJumpSuppressesRefresh ==
    \A p \in Sched :
        ( /\ Ended(p) /\ Probed(p)
          /\ current_state[p] = Prev0(p)
          /\ IsTime(Last0(p))
          /\ now_obs[p] < TimeOf(Last0(p)) )
        => /\ result[p] = "ok"
           /\ ActuatorCalls(p) = << >>
           /\ store = store0[p]

\* The cycle before the one p has just ended was killed between the two
\* writes of main.rs:204-211, and p probed the same state as that cycle.
AfterCrashBetweenWrites(p) ==
    /\ Ended(p) /\ Probed(p)
    /\ result[p] # "killed"
    /\ NoCollaboratorFault(p)
    /\ crashed.at = "set_last_refresh_time"
    /\ current_state[p] = crashed.state

\* C12 as stated: after a cycle that decided to act was killed between its
\* two store writes, the next cycle with the same probed state evaluates
\* force_refresh as true and calls the Actuator again.
C12_CrashForcesRefresh ==
    \A p \in Sched :
        AfterCrashBetweenWrites(p)
        => force_refresh[p] /\ OneMatchingCall(p)

\* C12 amended: the killed cycle leaves the new previous_state next to the
\* old last_refresh_time; the next cycle with the same probed state acts
\* only if that old time is absent or 60 seconds or more in the past, and
\* otherwise does nothing.
C12_CrashKeepsOldTime ==
    \A p \in Sched :
        AfterCrashBetweenWrites(p)
        => /\ Prev0(p) = crashed.state
           /\ Last0(p) = crashed.store0.last_refresh_time
           /\ force_refresh[p] =
                 ( \/ Last0(p) = Null
                   \/ now_obs[p] - TimeOf(Last0(p)) >= REFRESH_SECS )
           /\ IF force_refresh[p]
              THEN OneMatchingCall(p)
              ELSE ActuatorCalls(p) = << >> /\ store = store0[p]

\* C12 witness: the cycle after such a kill found the old time fresh and
\* ended without calling the Actuator.
C12_Witness ==
    \E p \in Sched :
        /\ AfterCrashBetweenWrites(p)
        /\ result[p] = "ok"
        /\ ~force_refresh[p]
        /\ ActuatorCalls(p) = << >>

\* C13: after any cycle, completed or aborted with an error at any step,
\* either both previous_state and last_refresh_time were written in that
\* cycle or neither was; a cycle that aborts leaves the store exactly as it
\* found it.
C13_NoPartialPersistence ==
    \A p \in Sched :
        Ended(p)
        => /\ Len(StoreWrites(p)) \in {0, 2}
           /\ (result[p] # "ok" => store = store0[p])

\* C14: the log is written only by transition cycles: a cycle whose probed
\* state equals previous_state, refresh-only or no-op, appends nothing to
\* the log, at any moment of the cycle and in every cycle of a run.
C14_LogOnlyOnTransition ==
    \A p \in Sched :
        (Probed(p) /\ current_state[p] = Prev0(p))
        => LogLines(p) = << >>

\* C14 witness: a refresh-only cycle has called the Actuator and ended, and
\* its record holds no log line.
C14_Witness ==
    \E p \in Sched :
        /\ Ended(p) /\ Probed(p)
        /\ result[p] = "ok"
        /\ current_state[p] = Prev0(p)
        /\ Len(ActuatorCalls(p)) = 1
        /\ LogLines(p) = << >>

\* C15: every Actuator call made for probed state Connected is
\* `profile -d` and every call made for Disconnected is
\* `profile -a "VPN Off"`, on the transition path and on the silent-refresh
\* path, whatever previous_state was and however many cycles ran before.
C15_ActuatorMapping ==
    \A p \in Sched :
        \A i \in 1..Len(trace[p]) :
            IsActuator(trace[p][i])
            => /\ current_state[p] \in {connected, disconnected}
               /\ trace[p][i].args =
                     IF current_state[p] = connected
                     THEN <<"profile", "-d">>
                     ELSE <<"profile", "-a", "VPN Off">>

\* C15 witness: a silent refresh for probed state Disconnected has made its
\* call, in a cycle that started from a record written by an earlier one.
C15_Witness ==
    \E p \in Sched :
        /\ pc[p] = "set_previous_state"
        /\ current_state[p] = disconnected
        /\ previous_state[p] = disconnected
        /\ IsTime(Last0(p))
        /\ Len(ActuatorCalls(p)) = 1

\* The cycle of p holds an Actuator call that exited with a non-zero status.
CallExitedNonZero(p) ==
    \E i \in 1..Len(trace[p]) :
        IsActuator(trace[p][i]) /\ trace[p][i].status # 0

\* The cycle of p logged the fixed message that follows the command.
LoggedAfter(p) ==
    \E i \in 1..Len(trace[p]) : trace[p][i] = MsgAfter(current_state[p])

\* C16: the exit status of the Actuator command is not interpreted.  A
\* cycle whose command started and exited non-zero, with the log sink
\* working, still writes previous_state and last_refresh_time, still logs
\* the fixed "enabled"/"disabled" message on the transition path, and ends
\* successfully; a cycle whose command could not be started ends with an
\* error without a store write.
C16_ExitStatusIgnored ==
    \A p \in Sched :
        Ended(p)
        => /\ (CallExitedNonZero(p) /\ result[p] # "err_log")
              => /\ result[p] = "ok"
                 /\ Len(StoreWrites(p)) = 2
                 /\ store.previous_state = CFStr(current_state[p])
                 /\ store.last_refresh_time = CFStr(U64ToString(persist_at[p]))
                 /\ (current_state[p] # previous_state[p] => LoggedAfter(p))
           /\ result[p] = "err_actuator"
              => /\ ActuatorCalls(p) = << >>
                 /\ StoreWrites(p) = << >>
                 /\ store = store0[p]

\* C16 witness: a transition cycle whose command exited non-zero has ended
\* successfully, the message logged and the record written.
C16_Witness ==
    \E p \in Sched :
        /\ Ended(p)
        /\ result[p] = "ok"
        /\ CallExitedNonZero(p)
        /\ current_state[p] # previous_state[p]
        /\ LoggedAfter(p)
        /\ Len(StoreWrites(p)) = 2

\* p has made its Actuator call for a transition and is still running.
CalledForTransition(p) ==
    /\ pc[p] \in {"log_after", "set_previous_state", "set_last_refresh_time"}
    /\ current_state[p] # previous_state[p]
    /\ Len(ActuatorCalls(p)) = 1

\* Two instances have read the same record and have both invoked the
\* Actuator for the same transition.
DoubleInvocation(p, q) ==
    /\ p # q
    /\ CalledForTransition(p) /\ CalledForTransition(q)
    /\ store0[p] = store0[q]
    /\ previous_state[p] = previous_state[q]
    /\ current_state[p] = current_state[q]

\* The record is fresh for the cycle of p: written less than 60 seconds
\* before the time the cycle read.
Fresh(p) ==
    /\ IsTime(Last0(p))
    /\ now_obs[p] >= TimeOf(Last0(p))
    /\ now_obs[p] - TimeOf(Last0(p)) < REFRESH_SECS

\* C17: a cycle during which no other instance ran behaves as a single
\* writer: a transition cycle makes exactly one Actuator call and writes
\* the probed state and a time to the store, and a cycle that finds that
\* state with a fresh time makes no call and no write, so one transition
\* followed by fresh cycles makes exactly one call.  Two instances that
\* have both called the Actuator for the same transition have overlapped.
C17_SingleWriterOneCall ==
    /\ \A p \in Procs :
          (Ended(p) /\ Probed(p) /\ ~overlapped[p])
          => /\ current_state[p] # Prev0(p)
                => /\ result[p] = "ok"
                   /\ Len(ActuatorCalls(p)) = 1
                   /\ Len(StoreWrites(p)) = 2
                   /\ StoreWrites(p)[1].key = "previous_state"
                   /\ StoreWrites(p)[1].value = current_state[p]
                   /\ StoreWrites(p)[2].key = "last_refresh_time"
             /\ (current_state[p] = Prev0(p) /\ Fresh(p))
                => /\ result[p] = "ok"
                   /\ ActuatorCalls(p) = << >>
                   /\ StoreWrites(p) = << >>
    /\ \A p, q \in Procs :
          DoubleInvocation(p, q) => overlapped[p] /\ overlapped[q]

\* C17 witness: two overlapping instances have read the same stale record
\* and have both invoked the Actuator for the same transition.
C17_Witness ==
    \E p, q \in Procs :
        /\ DoubleInvocation(p, q)
        /\ overlapped[p] /\ overlapped[q]

\* The text holds "proton" at place i, each letter in either case.
ProtonAt(text, i) ==
    /\ i + Len(PROTON) - 1 <= Len(text)
    /\ \A k \in 1..Len(PROTON) :
          \E n \in 1..26 :
              /\ Lower[n] = PROTON[k]
              /\ text[i + k - 1] \in {Lower[n], Upper[n]}

\* The text holds "Connected" at place j, in exactly this case.
ConnectedAt(text, j) ==
    /\ j + Len(CONNECTED_MARKER) - 1 <= Len(text)
    /\ \A k \in 1..Len(CONNECTED_MARKER) :
          text[j + k - 1] = CONNECTED_MARKER[k]

\* Both markers occur in the text with no line break between or inside them.
MarkersOnOneLine(text) ==
    \E i \in 1..Len(text) :
        /\ ProtonAt(text, i)
        /\ \E j \in 1..Len(text) :
              /\ ConnectedAt(text, j)
              /\ LET first == IF i < j THEN i ELSE j
                     last  == IF i + Len(PROTON) > j + Len(CONNECTED_MARKER)
                              THEN i + Len(PROTON) - 1
                              ELSE j + Len(CONNECTED_MARKER) - 1
                 IN  \A k \in first..last : text[k] # "\n"

\* C18: the probe gives Connected exactly when at least one line of the
\* output holds "proton" in any letter case and also "Connected" in exact
\* case; in every other case (no such line, empty output, the marker only
\* in another case, the two markers on different lines) it gives
\* Disconnected.
C18_ProbeClassification ==
    \A p \in Sched :
        Probed(p)
        => IF MarkersOnOneLine(FromUtf8Lossy(stdout[p]))
           THEN current_state[p] = connected
           ELSE current_state[p] = disconnected

\* C18 witness: an output naming the provider in capitals on a line with
\* "Connected" was classified as connected.
C18_Witness ==
    \E p \in Sched :
        /\ Probed(p)
        /\ stdout[p] = OutUpperCrLf
        /\ current_state[p] = connected

\* The line starts with a timestamp written "[YYYY-MM-DD HH:MM:SS]".
HasValidStamp(line) ==
    /\ Len(line) >= 3
    /\ line[1] = Ch("[")
    /\ line[2].kind = "stamp"
    /\ line[3] = Ch("]")

\* The lines the retention rule keeps: those without such a timestamp and
\* those whose age is at most retention_days.
RetainedLines(call) ==
    LET Retained(line) ==
            \/ ~HasValidStamp(line)
            \/ call.current_time - line[2].ts
                  <= call.retention_days * SECONDS_PER_DAY
    IN  SelectSeq(call.file.lines, Retained)

\* C19: clean_log_file keeps, in their order, every line without a valid
\* "[YYYY-MM-DD HH:MM:SS]" timestamp at its start and every timestamped
\* line whose age is at most retention_days, removes the older timestamped
\* lines and returns their number; a missing file yields 0 and is not
\* created.
C19_CleanLogRetention ==
    clean_result.kind # "none"
    => IF ~clean_call.file.exists
       THEN /\ clean_result = [kind |-> "ok", n |-> 0]
            /\ log_file = NoFile
       ELSE /\ clean_result.kind = "ok"
            /\ log_file.exists
            /\ log_file.lines = RetainedLines(clean_call)
            /\ clean_result.n =
                  Len(clean_call.file.lines) - Len(RetainedLines(clean_call))

\* C20: in a transition cycle the "state changed" line and the
\* "Disabling/Enabling" line are written before the Actuator is invoked,
\* the "disabled/enabled" line after it has returned, and the store only
\* after that, previous_state before last_refresh_time; in no cycle does a
\* store write precede the Actuator call.
C20_StepOrder ==
    \A p \in Sched :
        /\ \A i \in 1..Len(trace[p]) :
              IsSet(trace[p][i])
              => \E j \in 1..(i - 1) : IsActuator(trace[p][j])
        /\ ( /\ Ended(p) /\ result[p] = "ok"
             /\ current_state[p] # previous_state[p] )
           => /\ Len(trace[p]) = 6
              /\ trace[p][1] = MsgChanged(previous_state[p], current_state[p])
              /\ trace[p][2] = MsgBefore(current_state[p])
              /\ IsActuator(trace[p][3])
              /\ trace[p][4] = MsgAfter(current_state[p])
              /\ IsSet(trace[p][5]) /\ trace[p][5].key = "previous_state"
              /\ IsSet(trace[p][6]) /\ trace[p][6].key = "last_refresh_time"

\* C20 witness: a transition cycle has run through all six steps and ended.
C20_Witness ==
    \E p \in Sched :
        /\ Ended(p) /\ result[p] = "ok"
        /\ current_state[p] # previous_state[p]
        /\ Len(trace[p]) = 6
        /\ IsActuator(trace[p][3])

\* The places of main where a log line is written (main.rs:152, 159/170,
\* 167/179).
LogPcs == {"log_changed", "log_before", "log_after"}

\* The cycle before the one p is in stopped at a log write, and p has
\* probed the same state as that cycle and has itself passed the decision
\* without stopping at a log write.
AfterLogFailure(p) ==
    /\ crashed.at \in LogPcs
    /\ Probed(p) /\ current_state[p] = crashed.state
    /\ pc[p] \in LogPcs \cup {"actuate", "set_previous_state",
                              "set_last_refresh_time", "done"}
    /\ result[p] \notin {"err_log", "killed"}

\* C21: a log write that fails on the transition path ends the cycle with
\* the store as it was and nothing written to it; when it was one of the
\* two log writes before the Actuator call, the Actuator was not called;
\* when it was the log write after the call, the Actuator was called once
\* and the persisted previous_state still differs from the probed state.
\* The next cycle that probes the same state starts from the same
\* previous_state, finds the same transition, and calls the Actuator
\* (again) when it gets through.
C21_LogFailureKeepsTransition ==
    \A p \in Sched :
        /\ ( Ended(p) /\ result[p] = "err_log" )
           => /\ crashed.at \in LogPcs
              /\ current_state[p] # previous_state[p]
              /\ store = store0[p]
              /\ StoreWrites(p) = << >>
              /\ store.previous_state # CFStr(current_state[p])
              /\ crashed.at \in {"log_changed", "log_before"}
                    => ActuatorCalls(p) = << >>
              /\ crashed.at = "log_after" => OneMatchingCall(p)
        /\ AfterLogFailure(p)
           => /\ store0[p] = crashed.store0
              /\ current_state[p] # previous_state[p]
              /\ ( Ended(p) /\ result[p] = "ok" ) => OneMatchingCall(p)

\* A cycle stopped at the log write after the Actuator call, and the next
\* cycle has probed the same state and has called the Actuator again.
C21_Witness ==
    \E p \in Sched :
        /\ AfterLogFailure(p)
        /\ crashed.at = "log_after"
        /\ Ended(p) /\ result[p] = "ok"
        /\ OneMatchingCall(p)

\* C22: a cycle that starts with a persisted last_refresh_time that exists
\* and is not parseable as an integer ends with an error before the
\* decision, for every probed state and every clock value: it never reaches
\* a log write, the Actuator call or a store write, so the value is still
\* there, as malformed as before, for the next cycle.
C22_MalformedTimeNeverRecovers ==
    \A p \in Sched :
        ( Running(p) \/ Ended(p) ) /\ ExistsUnparseable(Last0(p))
        => /\ pc[p] \in {"probe", "read_previous_state",
                         "eval_force_refresh", "done"}
           /\ Ended(p) => result[p] \in {"err_probe", "err_parse"}
           /\ ActuatorCalls(p) = << >>
           /\ StoreWrites(p) = << >>
           /\ store = store0[p]
           /\ ExistsUnparseable(store.last_refresh_time)

\* The place of a command in the list of its group.
PlaceInGroup(run) ==
    CHOOSE k \in 1..Len(Commands(run.group)) :
        Commands(run.group)[k] = run.command

\* The run has executed the first command of the group.
GroupStarted(name) ==
    \E i \in 1..Len(commands_run) :
        /\ commands_run[i].group = name
        /\ commands_run[i].command = Commands(name)[1]

\* Offline: no command has been run, and the only thing logged is the
\* "System offline" line.
OfflineRun ==
    /\ commands_run = << >>
    /\ cronup_log \in { << >>, << LogEntry("offline", "offline", << >>) >> }
    /\ cronup_result = "ok" => Len(cronup_log) = 1

\* The commands have run group after group in the order brew, cargo,
\* rustup, nvim.
GroupsInOrder ==
    \A i, j \in 1..Len(commands_run) :
        i < j => GroupIndex(commands_run[i].group)
                    <= GroupIndex(commands_run[j].group)

\* Every group starts with its first command, and a later command of a
\* group has run only right after the command before it in the list, and
\* only when that one succeeded.
NextOnlyAfterSuccess ==
    \A i \in 1..Len(commands_run) :
        LET run == commands_run[i]
            k == PlaceInGroup(run)
        IN  IF k = 1
            THEN i = 1 \/ commands_run[i - 1].group # run.group
            ELSE /\ i > 1
                 /\ commands_run[i - 1] =
                       [ group |-> run.group,
                         command |-> Commands(run.group)[k - 1],
                         success |-> TRUE ]

\* C23: when check_network fails, one "System offline" line is logged and
\* no update command is run; when it succeeds, the brew, cargo, rustup and
\* nvim groups run in that order, inside a group a command runs only if
\* the command before it succeeded, and, whichever commands fail, every
\* group is run as long as bash and nvim can be started and the log files
\* can be written.
C23_RunOrder ==
    /\ GroupsInOrder
    /\ NextOnlyAfterSuccess
    /\ ( cronup_pc = "done" /\ online = "false" ) => OfflineRun
    /\ ( /\ cronup_pc = "done" /\ online = "true"
         /\ cronup_result \notin {"err_spawn", "err_log"} )
       => \A g \in 1..Len(Groups) : GroupStarted(Groups[g])

=========================================================================
